---- MODULE Spec2Model ----
(***************************************************************************)
(* A model of process_images.py: the brace-balanced template scan and the  *)
(* field regex of get_template_field, the two image filters, and the       *)
(* per-image loop of download_images_with_english_names.                   *)
(*                                                                         *)
(* Strings are sequences of one-character strings.  Indices into a string  *)
(* are kept 0-based, as in the Python source; Slice(w, i, j) is w[i:j].    *)
(*                                                                         *)
(* Three specifications share the variables:                               *)
(*   SpecScan    the body of get_template_field on one wikitext,           *)
(*               one loop iteration per step;                              *)
(*   SpecFilter  main(): search_all_images' filter, then the filter and    *)
(*               the loop of download_images_with_english_names;           *)
(*   SpecBatch   the loop "for image in filtered_images" (lines 143-185)   *)
(*               run on a given list filtered_images.                      *)
(***************************************************************************)
EXTENDS Integers, Sequences, FiniteSets, TLC

VARIABLES
    pc,                   \* position in the code
    response,             \* get_template_field: what session.get brought (line 20)
    wikitext,             \* get_template_field: wikitext (line 35)
    start_index,          \* line 46
    current_index,        \* line 47
    brace_balance,        \* line 48
    template_text,        \* line 49
    in_comment,           \* line 52
    english_name,         \* the value get_template_field returns (line 155)
    keyword,              \* args.keyword
    images,               \* the records the allimages API lists, flattened
    found,                \* what search_all_images returns (main's images)
    filtered_images,      \* line 139
    idx,                  \* how many elements the for loop of line 143 has taken
    attempted,            \* the names the loop has started on, in order
    original_name,        \* line 144
    character_page_title, \* line 150
    filename,             \* lines 159 / 173
    written_file          \* the leaf name given to open() at line 181, if any

vars == <<pc, response, wikitext, start_index, current_index, brace_balance, template_text,
          in_comment, english_name, keyword, images, found, filtered_images, idx,
          attempted, original_name, character_page_title, filename, written_file>>

scan_vars == <<response, wikitext, start_index, current_index, brace_balance, template_text,
               in_comment>>

batch_vars == <<keyword, images, found, filtered_images, idx, attempted,
                original_name, character_page_title, filename, written_file>>

(***************************************************************************)
(* Bounds of the model.                                                    *)
(***************************************************************************)
MaxTokens == 5       \* a scanned wikitext is made of at most this many tokens
MaxImages == 2       \* length of the image lists
MaxValueLen == 2     \* length of the raw field values placed in the pages

(***************************************************************************)
(* Python values.                                                          *)
(***************************************************************************)
None == [is_none |-> TRUE, value |-> <<>>]
Some(v) == [is_none |-> FALSE, value |-> v]

\* Python truthiness of an "optional string": None and "" are falsy.
Truthy(r) == ~r.is_none /\ r.value # <<>>

Min(a, b) == IF a < b THEN a ELSE b

\* w[i:j] for 0 <= i, 0 <= j (clipped to the string, as Python does).
Slice(w, i, j) == SubSeq(w, i + 1, Min(j, Len(w)))

\* w.startswith(pat, i)
StartsWithAt(w, i, pat) == Slice(w, i, i + Len(pat)) = pat /\ i + Len(pat) <= Len(w)

\* pat in w
Contains(w, pat) == \E i \in 0..Len(w) : StartsWithAt(w, i, pat)

\* w.endswith(pat)
EndsWith(w, pat) == Len(pat) <= Len(w) /\ StartsWithAt(w, Len(w) - Len(pat), pat)

\* \s of the re module, and the characters str.strip() removes
IsSpace(c) == c \in {" ", "\t", "\n", "\r", "\f"}

(***************************************************************************)
(* Literals of the source.                                                 *)
(***************************************************************************)
\* A CJK character of the source is written as its code point: "U7981" is
\* the one character U+7981.
TemplateName == <<"U7981", "U95ED", "U8005", "U56FE", "U9274">>  \* 禁闭者图鉴
FieldName == <<"U82F1", "U6587", "U540D">>                       \* 英文名
Namespace == <<"U7981", "U95ED", "U8005", ":">>                  \* 禁闭者:
DotPng == <<".", "p", "n", "g">>
Exclusion1 == <<"U5347", "U9636", "U88C5", "U675F">>             \* 升阶装束
Exclusion2 == <<>>                                               \* ""
OpenBraces == <<"{", "{">>
CloseBraces == <<"}", "}">>
CommentTagLen == 4
CommentTagSkip == 3

(***************************************************************************)
(* get_template_field, line 41: re.search(r"{{\s*<template>", wikitext). *)
(***************************************************************************)
RECURSIVE SkipSpace(_, _)
\* the index after the maximal run of whitespace that starts at i
SkipSpace(w, i) ==
    IF i < Len(w) /\ IsSpace(w[i + 1]) THEN SkipSpace(w, i + 1) ELSE i

MarkerAt(w, s) ==
    /\ StartsWithAt(w, s, OpenBraces)
    /\ StartsWithAt(w, SkipSpace(w, s + 2), TemplateName)

HasMarker(w) == \E s \in 0..Len(w) : MarkerAt(w, s)

\* template_start_match.start(): the leftmost match
TemplateStart(w) ==
    CHOOSE s \in 0..Len(w) : MarkerAt(w, s) /\ \A t \in 0..(s - 1) : ~MarkerAt(w, t)

(***************************************************************************)
(* get_template_field, lines 55-79: one iteration of the while loop.       *)
(* s = [current_index, brace_balance, template_text, in_comment, broke].   *)
(***************************************************************************)
ScanStart(w) ==
    [current_index |-> TemplateStart(w), brace_balance |-> 0, template_text |-> <<>>,
     in_comment |-> FALSE, broke |-> FALSE]

\* a mutant: the scan stops at the first "}}" whatever the depth
ScanStepFirstClose(w, s) ==
    LET ci == s.current_index IN
    IF Slice(w, ci, ci + CommentTagLen) = <<>>
    THEN [s EXCEPT !.in_comment = FALSE, !.current_index = ci + CommentTagSkip]
    ELSE IF ~s.in_comment /\ Slice(w, ci, ci + 2) = OpenBraces
    THEN [s EXCEPT !.brace_balance = @ + 1, !.template_text = @ \o OpenBraces,
                   !.current_index = ci + 2]
    ELSE IF ~s.in_comment /\ Slice(w, ci, ci + 2) = CloseBraces
    THEN [s EXCEPT !.brace_balance = @ - 1, !.template_text = @ \o CloseBraces,
                   !.current_index = ci + 2, !.broke = TRUE]
    ELSE [s EXCEPT !.template_text = Append(@, w[ci + 1]), !.current_index = ci + 1]

\* a mutant: the loop goes on after the depth has come back to 0
ScanStepNoBreak(w, s) ==
    LET ci == s.current_index IN
    IF Slice(w, ci, ci + CommentTagLen) = <<>>
    THEN [s EXCEPT !.in_comment = FALSE, !.current_index = ci + CommentTagSkip]
    ELSE IF ~s.in_comment /\ Slice(w, ci, ci + 2) = OpenBraces
    THEN [s EXCEPT !.brace_balance = @ + 1, !.template_text = @ \o OpenBraces,
                   !.current_index = ci + 2]
    ELSE IF ~s.in_comment /\ Slice(w, ci, ci + 2) = CloseBraces
    THEN [s EXCEPT !.brace_balance = @ - 1, !.template_text = @ \o CloseBraces,
                   !.current_index = ci + 2,
                   !.broke = (s.brace_balance - 1 = 0 /\ ci + 2 >= Len(w))]
    ELSE [s EXCEPT !.template_text = Append(@, w[ci + 1]), !.current_index = ci + 1]

ScanStep(w, s) ==
    LET ci == s.current_index IN
    \* line 56: the four-character slice compared with the empty string
    IF Slice(w, ci, ci + CommentTagLen) = <<>>
    THEN [s EXCEPT !.in_comment = FALSE, !.current_index = ci + CommentTagSkip]
    \* lines 61-66
    ELSE IF ~s.in_comment /\ Slice(w, ci, ci + 2) = OpenBraces
    THEN [s EXCEPT !.brace_balance = @ + 1, !.template_text = @ \o OpenBraces,
                   !.current_index = ci + 2]
    \* lines 67-75
    ELSE IF ~s.in_comment /\ Slice(w, ci, ci + 2) = CloseBraces
    THEN [s EXCEPT !.brace_balance = @ - 1, !.template_text = @ \o CloseBraces,
                   !.current_index = ci + 2, !.broke = (s.brace_balance - 1 = 0)]
    \* lines 78-79
    ELSE [s EXCEPT !.template_text = Append(@, w[ci + 1]), !.current_index = ci + 1]

RECURSIVE ScanAll(_, _)
\* the while loop run to its end: s.broke tells break from the else branch
ScanAll(w, s) ==
    IF s.broke \/ s.current_index >= Len(w) THEN s ELSE ScanAll(w, ScanStep(w, s))

(***************************************************************************)
(* get_template_field, lines 96-103: the field regex                       *)
(*   (?:\||\{\{)\s*英文名\s*=\s*([^|\n\r}]+)                               *)
(* and value = group(1).strip().                                           *)
(***************************************************************************)
IsTerminator(c) == c \in {"|", "\n", "\r", "}"}

RECURSIVE ValueEnd(_, _)
\* the index after the maximal run of [^|\n\r}] that starts at i
ValueEnd(t, i) ==
    IF i < Len(t) /\ ~IsTerminator(t[i + 1]) THEN ValueEnd(t, i + 1) ELSE i

\* after the delimiter at p: the index after "=", or -1 when the name or "=" is absent
AfterEquals(t, p) ==
    LET d == IF StartsWithAt(t, p, <<"|">>) THEN p + 1
             ELSE IF StartsWithAt(t, p, OpenBraces) THEN p + 2 ELSE -1
        a == IF d < 0 THEN -1 ELSE SkipSpace(t, d)
        c == IF a >= 0 /\ StartsWithAt(t, a, FieldName)
             THEN SkipSpace(t, a + Len(FieldName)) ELSE -1
    IN IF c >= 0 /\ StartsWithAt(t, c, <<"=">>) THEN c + 1 ELSE -1

\* where group 1 starts for a match attempted at p, or -1: the greedy \s*
\* before the group gives characters back until [^|\n\r}]+ can take one
GroupStart(t, p) ==
    LET q == AfterEquals(t, p)
        r == IF q < 0 THEN -1 ELSE SkipSpace(t, q)
        back == IF q < 0 THEN {}
                ELSE {j \in q..(r - 1) : ~IsTerminator(t[j + 1])}
    IN IF q < 0 THEN -1
       ELSE IF r < Len(t) /\ ~IsTerminator(t[r + 1]) THEN r
       ELSE IF back # {} THEN CHOOSE j \in back : \A k \in back : k <= j
       ELSE -1

RECURSIVE LStrip(_)
LStrip(v) == IF v # <<>> /\ IsSpace(Head(v)) THEN LStrip(Tail(v)) ELSE v

RECURSIVE RStrip(_)
RStrip(v) ==
    IF v # <<>> /\ IsSpace(v[Len(v)]) THEN RStrip(SubSeq(v, 1, Len(v) - 1)) ELSE v

\* str.strip()
Strip(v) == RStrip(LStrip(v))

\* re.search(...) on the template text, then lines 97-103
FieldMatch(t) ==
    LET hits == {p \in 0..Len(t) : GroupStart(t, p) >= 0} IN
    IF hits = {} THEN None
    ELSE LET p == CHOOSE h \in hits : \A k \in hits : h <= k
             g == GroupStart(t, p)
         IN Some(Strip(Slice(t, g, ValueEnd(t, g))))

\* a mutant: the while loop's else branch falls through to the field regex
WhileElseFallsThrough(t) == FieldMatch(t)

\* lines 80-82: the else branch of the while loop
WhileElse(t) == None

(***************************************************************************)
(* get_template_field, lines 36-103, on a wikitext that was received.      *)
(***************************************************************************)
FieldOfWikitext(w) ==
    IF w = <<>> THEN None                                   \* lines 36-38
    ELSE IF ~HasMarker(w) THEN None                         \* lines 42-44
    ELSE LET s == ScanAll(w, ScanStart(w)) IN
         IF ~s.broke THEN WhileElse(s.template_text)        \* lines 80-82
         ELSE FieldMatch(s.template_text)                   \* lines 96-103

(***************************************************************************)
(* search_all_images, lines 122-124, and                                   *)
(* download_images_with_english_names, line 139: the two filters.          *)
(* An image is a record [name |-> string].                                 *)
(***************************************************************************)
SearchKeeps(img, kw) == Contains(img.name, kw) /\ EndsWith(img.name, DotPng)

SearchFilter(imgs, kw) == SelectSeq(imgs, LAMBDA img : SearchKeeps(img, kw))

DownloadKeeps(img) ==
    ~Contains(img.name, Exclusion1) /\ ~Contains(img.name, Exclusion2)

DownloadFilter(imgs) == SelectSeq(imgs, DownloadKeeps)

(***************************************************************************)
(* download_images_with_english_names, lines 147-150: the page title.      *)
(***************************************************************************)
RECURSIVE ReplaceAll(_, _, _)
\* s.replace(old, new) for a non-empty old: every occurrence, left to right
ReplaceAll(s, old, new) ==
    IF s = <<>> THEN <<>>
    ELSE IF StartsWithAt(s, 0, old)
         THEN new \o ReplaceAll(SubSeq(s, Len(old) + 1, Len(s)), old, new)
         ELSE <<Head(s)>> \o ReplaceAll(Tail(s), old, new)

PageTitle(name, kw) == Namespace \o ReplaceAll(name, kw \o DotPng, <<>>)

(***************************************************************************)
(* download_images_with_english_names, lines 157-174: the file name.       *)
(***************************************************************************)
UpperLetters ==
    <<"A", "B", "C", "D", "E", "F", "G", "H", "I", "J", "K", "L", "M",
      "N", "O", "P", "Q", "R", "S", "T", "U", "V", "W", "X", "Y", "Z">>
LowerLetters ==
    <<"a", "b", "c", "d", "e", "f", "g", "h", "i", "j", "k", "l", "m",
      "n", "o", "p", "q", "r", "s", "t", "u", "v", "w", "x", "y", "z">>

LowerChar(c) ==
    IF \E i \in DOMAIN UpperLetters : UpperLetters[i] = c
    THEN LowerLetters[CHOOSE i \in DOMAIN UpperLetters : UpperLetters[i] = c]
    ELSE c

\* line 163: str.lower()
Lower(v) == [i \in DOMAIN v |-> LowerChar(v[i])]

\* line 166: replace('.', '')
RemoveDots(v) == ReplaceAll(v, <<".">>, <<>>)

\* the character class [\s\\/:"*?<>|] of line 170
IsInvalid(c) == IsSpace(c) \/ c \in {"\\", "/", ":", "\"", "*", "?", "<", ">", "|"}

RECURSIVE SkipInvalid(_)
SkipInvalid(v) == IF v # <<>> /\ IsInvalid(Head(v)) THEN SkipInvalid(Tail(v)) ELSE v

RECURSIVE SubInvalidRuns(_)
\* line 170: re.sub(r'[\s\\/:"*?<>|]+', '_', v)
SubInvalidRuns(v) ==
    IF v = <<>> THEN <<>>
    ELSE IF IsInvalid(Head(v)) THEN <<"_">> \o SubInvalidRuns(SkipInvalid(v))
    ELSE <<Head(v)>> \o SubInvalidRuns(Tail(v))

\* lines 163-170
Sanitize(v) == SubInvalidRuns(RemoveDots(Lower(v)))

\* a mutant: the fallback is taken only when the lookup returned None
ResolveFilenameNoneOnly(name, en) ==
    IF en.is_none THEN name ELSE Sanitize(en.value) \o DotPng

\* lines 157-173
ResolveFilename(name, en) ==
    IF ~Truthy(en) THEN name ELSE Sanitize(en.value) \o DotPng

(***************************************************************************)
(* Inputs of SpecScan: wikitexts made of a few tokens, and three fixed     *)
(* pages.                                                                  *)
(***************************************************************************)
\* no request was made yet
NoResponse == [kind |-> "none", raw |-> <<>>, wikitext |-> <<>>]

RECURSIVE Flatten(_)
Flatten(ts) == IF ts = <<>> THEN <<>> ELSE Head(ts) \o Flatten(Tail(ts))

CommentOpen == <<"<", "!", "-", "-">>
CommentClose == <<"-", "-", ">">>
FieldToken == <<"|">> \o FieldName \o <<"=", "A">>

ScanTokens ==
    {OpenBraces, CloseBraces, TemplateName, FieldToken, <<" ">>, <<"}">>,
     CommentOpen}

\* {{T|a={{b}}|c=d}} with T the template name
NestedExample ==
    OpenBraces \o TemplateName \o <<"|", "a", "=">> \o OpenBraces \o <<"b">>
        \o CloseBraces \o <<"|", "c", "=", "d">> \o CloseBraces

\* {{T<!--}}-->|f=A}} with f the field name
CommentExample ==
    OpenBraces \o TemplateName \o CommentOpen \o CloseBraces \o CommentClose
        \o FieldToken \o CloseBraces

\* x{{ T|a={{b}}|f=A}}}}y
TrailingExample ==
    <<"x">> \o OpenBraces \o <<" ">> \o TemplateName \o <<"|", "a", "=">>
        \o OpenBraces \o <<"b">> \o CloseBraces \o FieldToken \o CloseBraces
        \o CloseBraces \o <<"y">>

ScanWikitexts ==
    {Flatten(ts) : ts \in UNION {[1..n -> ScanTokens] : n \in 0..MaxTokens}}
        \cup {NestedExample, CommentExample, TrailingExample}

(***************************************************************************)
(* SpecScan: get_template_field from line 36 on, for one wikitext.         *)
(***************************************************************************)
InitScan ==
    /\ pc = "wikitext"
    /\ wikitext \in ScanWikitexts
    /\ response = [kind |-> "ok", raw |-> <<>>, wikitext |-> wikitext]
    /\ start_index = 0
    /\ current_index = 0
    /\ brace_balance = 0
    /\ template_text = <<>>
    /\ in_comment = FALSE
    /\ english_name = None
    /\ keyword = <<>>
    /\ images = <<>>
    /\ found = <<>>
    /\ filtered_images = <<>>
    /\ idx = 0
    /\ attempted = <<>>
    /\ original_name = <<>>
    /\ character_page_title = <<>>
    /\ filename = <<>>
    /\ written_file = None

\* lines 36-38
NoWikitext ==
    /\ pc = "wikitext"
    /\ wikitext = <<>>
    /\ english_name' = None
    /\ pc' = "no_wikitext"
    /\ UNCHANGED <<scan_vars, batch_vars>>

\* lines 41-44
TemplateNotFound ==
    /\ pc = "wikitext"
    /\ wikitext # <<>>
    /\ ~HasMarker(wikitext)
    /\ english_name' = None
    /\ pc' = "not_found"
    /\ UNCHANGED <<scan_vars, batch_vars>>

\* lines 41, 46-52
TemplateFound ==
    /\ pc = "wikitext"
    /\ wikitext # <<>>
    /\ HasMarker(wikitext)
    /\ start_index' = TemplateStart(wikitext)
    /\ current_index' = ScanStart(wikitext).current_index
    /\ brace_balance' = ScanStart(wikitext).brace_balance
    /\ template_text' = ScanStart(wikitext).template_text
    /\ in_comment' = ScanStart(wikitext).in_comment
    /\ pc' = "scan"
    /\ UNCHANGED <<response, wikitext, english_name, batch_vars>>

\* lines 55-79: one iteration of the while loop
ScanIteration ==
    /\ pc = "scan"
    /\ current_index < Len(wikitext)
    /\ LET s == ScanStep(wikitext,
                         [current_index |-> current_index,
                          brace_balance |-> brace_balance,
                          template_text |-> template_text,
                          in_comment |-> in_comment, broke |-> FALSE])
       IN /\ current_index' = s.current_index
          /\ brace_balance' = s.brace_balance
          /\ template_text' = s.template_text
          /\ in_comment' = s.in_comment
          /\ pc' = IF s.broke THEN "field" ELSE "scan"
    /\ UNCHANGED <<response, wikitext, start_index, english_name, batch_vars>>

\* lines 55, 80-82: the loop condition fails, the else branch returns
ScanExhausted ==
    /\ pc = "scan"
    /\ current_index >= Len(wikitext)
    /\ english_name' = WhileElse(template_text)
    /\ pc' = "unbalanced"
    /\ UNCHANGED <<scan_vars, batch_vars>>

\* lines 84-103
ExtractField ==
    /\ pc = "field"
    /\ english_name' = FieldMatch(template_text)
    /\ pc' = "returned"
    /\ UNCHANGED <<scan_vars, batch_vars>>

NextScan ==
    \/ NoWikitext
    \/ TemplateNotFound
    \/ TemplateFound
    \/ ScanIteration
    \/ ScanExhausted
    \/ ExtractField

SpecScan == InitScan /\ [][NextScan]_vars

(***************************************************************************)
(* SpecFilter: main(), lines 197-205, down to the loop of line 143.        *)
(***************************************************************************)
Keyword == <<"U8BC1", "U4EF6", "U7167">>                  \* 证件照

Image(name) == [name |-> name]

\* x_证件照.png
PlainName == <<"x", "_">> \o Keyword \o DotPng
\* x_证件照_升阶装束.png
ExcludedName == <<"x", "_">> \o Keyword \o <<"_">> \o Exclusion1 \o DotPng
\* x.png
NoKeywordName == <<"x">> \o DotPng
\* x_证件照.jpg
JpgName == <<"x", "_">> \o Keyword \o <<".", "j", "p", "g">>
\* y_证件照.png
OtherName == <<"y", "_">> \o Keyword \o DotPng

ListedNames == {PlainName, ExcludedName, NoKeywordName, JpgName, OtherName}

Lists(S, n) == UNION {[1..k -> S] : k \in 0..n}

BlankScan ==
    /\ response = NoResponse
    /\ wikitext = <<>>
    /\ start_index = 0
    /\ current_index = 0
    /\ brace_balance = 0
    /\ template_text = <<>>
    /\ in_comment = FALSE

InitFilter ==
    /\ pc = "main"
    /\ BlankScan
    /\ english_name = None
    /\ keyword \in {Keyword, <<"x">>}
    /\ images \in Lists({Image(n) : n \in ListedNames}, MaxImages + 1)
    /\ found = <<>>
    /\ filtered_images = <<>>
    /\ idx = 0
    /\ attempted = <<>>
    /\ original_name = <<>>
    /\ character_page_title = <<>>
    /\ filename = <<>>
    /\ written_file = None

\* lines 198, 106-131: the pages of the listing, filtered and collected
SearchAllImages ==
    /\ pc = "main"
    /\ found' = SearchFilter(images, keyword)
    /\ pc' = "found"
    /\ UNCHANGED <<scan_vars, english_name, keyword, images, filtered_images, idx,
                   attempted, original_name, character_page_title, filename,
                   written_file>>

\* lines 201, 204-205
NoMatchingImages ==
    /\ pc = "found"
    /\ found = <<>>
    /\ pc' = "done"
    /\ UNCHANGED <<scan_vars, english_name, batch_vars>>

\* lines 201-202, 134-141
FilterImages ==
    /\ pc = "found"
    /\ found # <<>>
    /\ filtered_images' = DownloadFilter(found)
    /\ idx' = 0
    /\ pc' = "loop"
    /\ UNCHANGED <<scan_vars, english_name, keyword, images, found, attempted,
                   original_name, character_page_title, filename, written_file>>

\* line 143 with the list exhausted, line 203
LoopExit ==
    /\ pc = "loop"
    /\ idx >= Len(filtered_images)
    /\ pc' = "done"
    /\ UNCHANGED <<scan_vars, english_name, batch_vars>>

NextFilter ==
    \/ SearchAllImages
    \/ NoMatchingImages
    \/ FilterImages
    \/ LoopExit

SpecFilter == InitFilter /\ [][NextFilter]_vars

(***************************************************************************)
(* SpecBatch: the loop of lines 143-185 on a list filtered_images.         *)
(* The answers of the wiki and of the file server are inputs.              *)
(***************************************************************************)
\* A_证件照.png
NameA == <<"A", "_">> \o Keyword \o DotPng
\* Who?_证件照.png
NameQuestion == <<"W", "h", "o", "?", "_">> \o Keyword \o DotPng
\* a证件照.png_b证件照.png
NameTwice == <<"a">> \o Keyword \o DotPng \o <<"_", "b">> \o Keyword \o DotPng
\* 证件照_c.png
NameInfix == Keyword \o <<"_", "c">> \o DotPng

BatchNames == {NameA, NameQuestion, NameTwice, NameInfix}

ValueChars == {"J", " ", ".", ":"}

RawValues == Lists(ValueChars, MaxValueLen) \cup {<<"J", "o", "h", "n", " ", "D", "o", "e">>}

\* {{T|f=<raw>}} with T the template name and f the field name
PageWithValue(raw) ==
    OpenBraces \o TemplateName \o <<"|">> \o FieldName \o <<"=">> \o raw
        \o CloseBraces

NoTemplatePage == <<"x">>
UnbalancedPage == OpenBraces \o TemplateName \o FieldToken
NoFieldPage == OpenBraces \o TemplateName \o <<"|", "x", "=", "1">> \o CloseBraces

\* what the page lookup of line 20 can bring
Responses ==
    {[kind |-> k, raw |-> <<>>, wikitext |-> <<>>] :
        k \in {"network_error", "bad_json", "api_error", "no_wikitext"}}
    \cup {[kind |-> "no_template", raw |-> <<>>, wikitext |-> NoTemplatePage],
          [kind |-> "unbalanced", raw |-> <<>>, wikitext |-> UnbalancedPage],
          [kind |-> "no_field", raw |-> <<>>, wikitext |-> NoFieldPage]}
    \cup {[kind |-> "field", raw |-> v, wikitext |-> PageWithValue(v)] :
              v \in RawValues}

\* lines 20-103 for a response that arrived
get_template_field(resp) ==
    IF resp.kind = "bad_json" THEN None            \* lines 23-29
    ELSE IF resp.kind = "api_error" THEN None      \* lines 31-33
    ELSE FieldOfWikitext(resp.wikitext)            \* lines 35-103

InitBatch ==
    /\ pc = "loop"
    /\ BlankScan
    /\ english_name = None
    /\ keyword = Keyword
    /\ images = <<>>
    /\ found = <<>>
    /\ filtered_images \in Lists({Image(n) : n \in BatchNames}, MaxImages)
    /\ idx = 0
    /\ attempted = <<>>
    /\ original_name = <<>>
    /\ character_page_title = <<>>
    /\ filename = <<>>
    /\ written_file = None

\* the answers, each with what get_template_field makes of it
LookupResult == [resp \in Responses |-> get_template_field(resp)]

\* lines 143-152: the loop takes the next image; what the last iteration left
\* in the locals is not read again
ProcessImage ==
    /\ pc = "loop"
    /\ idx < Len(filtered_images)
    /\ original_name' = filtered_images[idx + 1].name
    /\ character_page_title' = PageTitle(filtered_images[idx + 1].name, keyword)
    /\ attempted' = Append(attempted, filtered_images[idx + 1].name)
    /\ idx' = idx + 1
    /\ response' = NoResponse
    /\ wikitext' = <<>>
    /\ english_name' = None
    /\ filename' = <<>>
    /\ written_file' = None
    /\ pc' = "lookup"
    /\ UNCHANGED <<start_index, current_index, brace_balance, template_text,
                   in_comment, keyword, images, found, filtered_images>>

\* lines 155, 20: session.get raises, nothing catches it up to main
LookupRaises ==
    /\ pc = "lookup"
    /\ \E resp \in Responses :
          /\ resp.kind = "network_error"
          /\ response' = resp
    /\ pc' = "aborted"
    /\ UNCHANGED <<wikitext, start_index, current_index, brace_balance,
                   template_text, in_comment, english_name, batch_vars>>

\* lines 155, 20-103, 157-178: the lookup returns and the file name is chosen
LookupReturns ==
    /\ pc = "lookup"
    /\ \E resp \in Responses :
          /\ resp.kind # "network_error"
          /\ response' = resp
          /\ wikitext' = resp.wikitext
          /\ english_name' = LookupResult[resp]
          /\ filename' = ResolveFilename(original_name, LookupResult[resp])
    /\ pc' = "download"
    /\ UNCHANGED <<start_index, current_index, brace_balance, template_text,
                   in_comment, keyword, images, found, filtered_images, idx,
                   attempted, original_name, character_page_title, written_file>>

\* lines 179-183
DownloadSucceeds ==
    /\ pc = "download"
    /\ written_file' = Some(filename)
    /\ pc' = "loop"
    /\ UNCHANGED <<scan_vars, english_name, keyword, images, found, filtered_images,
                   idx, attempted, original_name, character_page_title, filename>>

\* lines 179-180, 184-185: requests.get raises, the loop goes on
DownloadFails ==
    /\ pc = "download"
    /\ written_file' = None
    /\ pc' = "loop"
    /\ UNCHANGED <<scan_vars, english_name, keyword, images, found, filtered_images,
                   idx, attempted, original_name, character_page_title, filename>>

NextBatch ==
    \/ ProcessImage
    \/ LookupRaises
    \/ LookupReturns
    \/ DownloadSucceeds
    \/ DownloadFails
    \/ LoopExit

SpecBatch == InitBatch /\ [][NextBatch]_vars

(***************************************************************************)
(* Properties of the template scan (SpecScan).                             *)
(***************************************************************************)
\* how many times the character c occurs in w[s:e]
CountIn(w, s, e, c) == Cardinality({i \in s..(e - 1) : w[i + 1] = c})

\* twice the nesting depth of w[s:e]: opening minus closing brace characters
Balance(w, s, e) == CountIn(w, s, e, "{") - CountIn(w, s, e, "}")

\* every maximal run of one brace character in w[s:] has even length, so that
\* the text splits into "{{" and "}}" in one way only
EvenRuns(w, s) ==
    \A i \in s..(Len(w) - 1) : \A c \in {"{", "}"} :
        (w[i + 1] = c /\ (i = s \/ w[i] # c)) =>
            \E n \in 1..(Len(w) - i) :
                /\ n % 2 = 0
                /\ \A k \in i..(i + n - 1) : w[k + 1] = c
                /\ (i + n = Len(w) \/ w[i + n + 1] # c)

\* the end (exclusive) of the "}}" that matches the "{{" at s, if there is one
HasMatchingEnd(w, s) == \E e \in (s + 1)..Len(w) : Balance(w, s, e) = 0

MatchingEnd(w, s) ==
    CHOOSE e \in (s + 1)..Len(w) :
        Balance(w, s, e) = 0 /\ \A d \in (s + 1)..(e - 1) : Balance(w, s, d) # 0

\* the first opening marker of the template, stated without the search
IsFirstMarker(w, s) == MarkerAt(w, s) /\ \A t \in 0..(s - 1) : ~MarkerAt(w, t)

InsideComment(w, s, i) ==
    \E o \in s..(i - 4) :
        /\ StartsWithAt(w, o, CommentOpen)
        /\ \A c \in (o + 4)..(i - 3) : ~StartsWithAt(w, c, CommentClose)

\* C2: a "{{" or "}}" that lies inside a comment span is copied to the buffer
\* and leaves the brace-depth counter as it was.
C2_CommentBracesIgnored ==
    [][(/\ pc = "scan"
        /\ current_index < Len(wikitext)
        /\ InsideComment(wikitext, start_index, current_index)
        /\ Slice(wikitext, current_index, current_index + 2)
               \in {OpenBraces, CloseBraces})
       => (/\ brace_balance' = brace_balance
           /\ template_text' = template_text
                  \o Slice(wikitext, current_index, current_index + 2))]_vars

\* C3: when the marker is found and the scan reaches the end of the input with
\* the depth still above 0, get_template_field returns None, not a field of the
\* unterminated text.
C3_UnterminatedReturnsNone ==
    (/\ pc \in {"unbalanced", "returned"}
     /\ current_index >= Len(wikitext)
     /\ brace_balance > 0)
        => english_name = None

\* C3 witness: the unterminated text that was scanned holds an assignment of the
\* field
C3_Witness ==
    /\ pc = "unbalanced"
    /\ brace_balance > 0
    /\ ~FieldMatch(template_text).is_none
    /\ english_name = None

\* C4: the brace-depth counter is never negative during the scan; it is 0 before
\* the first iteration and 0 right after a span that is returned.
C4_DepthNonNegative ==
    /\ brace_balance >= 0
    /\ (pc = "scan" /\ current_index = start_index) => brace_balance = 0
    /\ pc \in {"field", "returned"} => brace_balance = 0

\* C4 witness: a span was returned from a wikitext with closing braces after it
C4_Witness ==
    /\ pc = "field"
    /\ brace_balance = 0
    /\ StartsWithAt(wikitext, current_index, CloseBraces)

(***************************************************************************)
(* Properties of the filters (SpecFilter).                                 *)
(***************************************************************************)
\* the filter as the specification of the catalog words it, with the one
\* exclusion of its example
ClaimedKeeps(img) ==
    /\ Contains(img.name, keyword)
    /\ EndsWith(img.name, DotPng)
    /\ ~Contains(img.name, Exclusion1)

\* C5: the images the loop processes are those of the listing whose name holds
\* the keyword, ends with .png and holds no exclusion substring, in the order of
\* the listing; of x_<keyword>.png and x_<keyword>_<exclusion>.png exactly the
\* first is kept.
C5_ProcessedIffClaimed ==
    pc \in {"loop", "done"} => filtered_images = SelectSeq(images, ClaimedKeeps)

(***************************************************************************)
(* Properties of the loop (SpecBatch).                                     *)
(***************************************************************************)
\* the lookups after which get_template_field has no assignment to return
NoAssignment(resp) ==
    \/ resp.kind \in {"bad_json", "api_error", "no_wikitext", "no_template",
                      "unbalanced", "no_field"}
    \/ resp.kind = "field" /\ resp.raw = <<>>

ReservedChars == {"\\", "/", ":", "\"", "*", "?", "<", ">", "|"}

StripSuffix(name, suf) ==
    IF EndsWith(name, suf) THEN SubSeq(name, 1, Len(name) - Len(suf)) ELSE name

====
